---------------------------- MODULE Spec2Model ----------------------------
(***************************************************************************)
(* A model of the CircuitCubes package (src/CircuitCubes/CircuitCubes.py,  *)
(* version 1.1.3): the constant table, the Cube handle with its BLE client *)
(* objects, the motor command encoder and the public operations with their *)
(* synchronous dispatch wrappers.                                          *)
(*                                                                         *)
(* Python strings that the code builds or inspects character by character  *)
(* (command strings, attribute payloads) are sequences of one-character    *)
(* strings; strings that are only stored and compared (addresses, UUIDs,   *)
(* exception class names) are TLA+ strings.  The empty string "" in an     *)
(* err field means that no exception was raised.                           *)
(***************************************************************************)
EXTENDS Integers, Sequences, FiniteSets, TLC

VARIABLES
    jupyter,            \* Cube.jupyter: an interactive shell was detected
    client,             \* Cube.client: 0 = attribute never assigned, else index into clients
    clients,            \* every BleakClient object created so far: [address, connected]
    address,            \* Cube.address
    bluetooth_address,  \* Constants.bluetooth_address
    constantsList,      \* Constants.constantsList
    voltage,            \* Cube.voltage (<<"unset">> until async_battery assigns it)
    last                \* the latest public call: arguments, transport events, outcome

vars == <<jupyter, client, clients, address, bluetooth_address, constantsList, voltage, last>>

---------------------------------------------------------------------------
(* Bounds of the model *)

\* velocities handed to motor_command range over -MaxVel..MaxVel
MaxVel == 103
\* BleakClient objects one handle creates in a run
MaxClients == 2
\* length of the letters and velocities lists handed to run_motors
MaxLen == 2

---------------------------------------------------------------------------
(* Constants table *)

CIRCUITCUBE_SERV == "6e400001-b5a3-f393-e0a9-e50e24dcca9e"
TX_CHAR == "6e400002-b5a3-f393-e0a9-e50e24dcca9e"
RX_CHAR == "6e400003-b5a3-f393-e0a9-e50e24dcca9e"
RX_CLIENT_CHAR_CONFIG_DESC == "00002902-0000-1000-8000-00805f9b34fb"
GAP_SERV == "00001800-0000-1000-8000-00805f9b34fb"
DEVICE_NAME_CHAR == "00002a00-0000-1000-8000-00805f9b34fb"
APPEARANCE_CHAR == "00002a01-0000-1000-8000-00805f9b34fb"
PERIPHERAL_PRIVACY_CHAR == "00002a02-0000-1000-8000-00805f9b34fb"
GATT_SERV == "00001801-0000-1000-8000-00805f9b34fb"
SERVICE_CHANGED_CHAR == "00002a05-0000-1000-8000-00805f9b34fb"
GATT_CLIENT_CHAR_CONFIG_DESC == "00002902-0000-1000-8000-00805f9b34fb"
DEVICE_INFORMATION_SERV == "0000180a-0000-1000-8000-00805f9b34fb"
SYSTEM_ID_CHAR == "00002a23-0000-1000-8000-00805f9b34fb"
MODEL_NUMBER_STR_CHAR == "00002a24-0000-1000-8000-00805f9b34fb"
SERIAL_NUMBER_STR_CHAR == "00002a25-0000-1000-8000-00805f9b34fb"
FIRMWARE_REV_STR_CHAR == "00002a26-0000-1000-8000-00805f9b34fb"
HARDWARE_REV_STR_CHAR == "00002a27-0000-1000-8000-00805f9b34fb"
SOFTWARE_REV_STR_CHAR == "00002a28-0000-1000-8000-00805f9b34fb"
MANUFACTURER_STR_CHAR == "00002a29-0000-1000-8000-00805f9b34fb"
IEEE_REGULATORY_LIST_CHAR == "00002a2a-0000-1000-8000-00805f9b34fb"
PLUGNPLAY_ID_CHAR == "00002a50-0000-1000-8000-00805f9b34fb"
UNKNOWN_SERV == "f000ffc0-0451-4000-b000-000000000000"
UNKNOWN_CHAR_1 == "f000ffc1-0451-4000-b000-000000000000"
UNKNOWN_DESC_1 == "00002902-0000-1000-8000-00805f9b34fb"
UNKNOWN_DESC_2 == "00002901-0000-1000-8000-00805f9b34fb"
UNKNOWN_CHAR_2 == "f000ffc2-0451-4000-b000-000000000000"
UNKNOWN_DESC_3 == "00002902-0000-1000-8000-00805f9b34fb"
UNKNOWN_DESC_4 == "00002901-0000-1000-8000-00805f9b34fb"

\* Constants.__init__: the list is built once, from the values the attributes
\* hold at that moment; slot 0 receives the empty string bluetooth_address
\* holds then.
Constants_init_list(addr) ==
    << addr,
       CIRCUITCUBE_SERV, TX_CHAR, RX_CHAR, RX_CLIENT_CHAR_CONFIG_DESC,
       GAP_SERV, DEVICE_NAME_CHAR, APPEARANCE_CHAR, PERIPHERAL_PRIVACY_CHAR,
       GATT_SERV, SERVICE_CHANGED_CHAR, GATT_CLIENT_CHAR_CONFIG_DESC,
       DEVICE_INFORMATION_SERV, SYSTEM_ID_CHAR, MODEL_NUMBER_STR_CHAR, SERIAL_NUMBER_STR_CHAR,
       FIRMWARE_REV_STR_CHAR, HARDWARE_REV_STR_CHAR, SOFTWARE_REV_STR_CHAR,
       MANUFACTURER_STR_CHAR, IEEE_REGULATORY_LIST_CHAR, PLUGNPLAY_ID_CHAR,
       UNKNOWN_SERV, UNKNOWN_CHAR_1, UNKNOWN_DESC_1, UNKNOWN_DESC_2, UNKNOWN_CHAR_2,
       UNKNOWN_DESC_3, UNKNOWN_DESC_4 >>

\* Constants.get_constant: Python list indexing. Index i of a list of n items
\* is item i for 0 <= i < n, item n + i for -n <= i < 0, and IndexError
\* otherwise. (TLA+ sequences start at 1.)
Constants_get_constant(list, index) ==
    IF 0 <= index /\ index < Len(list)
    THEN [err |-> "", val |-> list[index + 1]]
    ELSE IF -Len(list) <= index /\ index < 0
         THEN [err |-> "", val |-> list[Len(list) + index + 1]]
         ELSE [err |-> "IndexError", val |-> ""]

---------------------------------------------------------------------------
(* Command encoder *)

abs(x) == IF x < 0 THEN -x ELSE x

\* ord('a')
ord_a == 97

\* chr, on the code points the encoder can produce
chr(code) ==
    CASE code = 97 -> "a"
      [] code = 98 -> "b"
      [] code = 99 -> "c"
      [] OTHER -> "?"

DigitChar(d) ==
    CASE d = 0 -> "0" [] d = 1 -> "1" [] d = 2 -> "2" [] d = 3 -> "3" [] d = 4 -> "4"
      [] d = 5 -> "5" [] d = 6 -> "6" [] d = 7 -> "7" [] d = 8 -> "8" [] d = 9 -> "9"

\* str(n) for n >= 0, as a sequence of digit characters
RECURSIVE Decimal(_)
Decimal(n) ==
    IF n < 10 THEN << DigitChar(n) >>
    ELSE Append(Decimal(n \div 10), DigitChar(n % 10))

RECURSIVE ZeroFill(_, _)
ZeroFill(s, width) == IF Len(s) >= width THEN s ELSE ZeroFill(<< "0" >> \o s, width)

\* mutant: the format spec dropped, the magnitude printed without padding
Format_unpadded(n) == Decimal(n)

\* the format spec ":03" applied to a non-negative integer: decimal digits,
\* zero-padded on the left to a MINIMUM width of 3 (wider numbers keep all
\* their digits)
Format03(n) == ZeroFill(Decimal(n), 3)

\* mutant: a chain that ends in an else branch binding motor 0
motor_of_with_default(letter) ==
    CASE letter = "B" -> 1
      [] letter = "C" -> 2
      [] OTHER -> 0

\* the if/elif chain that binds the local "motor"; -1 stands for the local
\* left unbound when no branch matches (there is no else branch)
motor_of(letter) ==
    CASE letter = "A" -> 0
      [] letter = "B" -> 1
      [] letter = "C" -> 2
      [] OTHER -> -1

\* mutant: the range check made inclusive
out_of_range_inclusive(doubled) == doubled >= 200

\* the range check on the doubled absolute velocity
out_of_range(doubled) == doubled > 200

\* mutant: the dead-zone offset added to a zero velocity as well
encoded_magnitude_always_offset(doubled, velocity) == 55 + abs(velocity)

\* the magnitude that is sent: 0 for a zero velocity, otherwise the absolute
\* velocity moved up by the dead zone of 55
encoded_magnitude(doubled, velocity) == IF doubled = 0 THEN 0 ELSE 55 + abs(velocity)

\* Cube.motor_command. Velocities are integers here, on which math.ceil is
\* the identity. The unbound local is read only when the f-string is built,
\* after the range check, so an out-of-range velocity raises ValueError
\* whatever the letter is.
motor_command(letter, velocity) ==
    LET motor == motor_of(letter)
        sign == IF velocity < 0 THEN "-" ELSE "+"
        doubled == abs(velocity * 2)
        magnitude == encoded_magnitude(doubled, velocity)
    IN  IF out_of_range(doubled)
        THEN [err |-> "ValueError", str |-> << >>]
        ELSE IF motor = -1
             THEN [err |-> "UnboundLocalError", str |-> << >>]
             ELSE [err |-> "",
                   str |-> << sign >> \o Format03(magnitude) \o << chr(ord_a + motor) >>]


---------------------------------------------------------------------------
(* Byte strings *)

\* ord, on the characters the package sends
ord(c) ==
    CASE c = "+" -> 43 [] c = "-" -> 45 [] c = "." -> 46
      [] c = "0" -> 48 [] c = "1" -> 49 [] c = "2" -> 50 [] c = "3" -> 51 [] c = "4" -> 52
      [] c = "5" -> 53 [] c = "6" -> 54 [] c = "7" -> 55 [] c = "8" -> 56 [] c = "9" -> 57
      [] c = "a" -> 97 [] c = "b" -> 98 [] c = "c" -> 99
      [] OTHER -> 63

\* str.encode(): the UTF-8 bytes of an ASCII string
encode(str) == [i \in 1..Len(str) |-> ord(str[i])]

\* the character of one byte of ASCII text; "NUL" stands for the character
\* '\x00' and "" for a byte that is no ASCII character
byte_char(b) ==
    CASE b = 0 -> "NUL" [] b = 46 -> "."
      [] b \in 48..57 -> DigitChar(b - 48)
      [] b = 86 -> "V"
      [] OTHER -> ""

\* bytes.decode('utf-8') on the payloads of this model (single-byte code
\* points below 128; any other byte is undecodable here)
decode(bytes) ==
    IF \E i \in 1..Len(bytes) : byte_char(bytes[i]) = ""
    THEN [err |-> "UnicodeDecodeError", str |-> << >>]
    ELSE [err |-> "", str |-> [i \in 1..Len(bytes) |-> byte_char(bytes[i])]]

\* str.rstrip('\x00')
RECURSIVE rstrip_nul(_)
rstrip_nul(str) ==
    IF Len(str) > 0 /\ str[Len(str)] = "NUL"
    THEN rstrip_nul(SubSeq(str, 1, Len(str) - 1))
    ELSE str

---------------------------------------------------------------------------
(* The handle's fields, the transport and the outcome of a routine *)

\* the fields of Cube and Constants that the routines read and assign
Fields ==
    [client |-> client, clients |-> clients, address |-> address,
     bluetooth_address |-> bluetooth_address, constantsList |-> constantsList,
     voltage |-> voltage]

\* self.constants(index), with an index that is in range
constants(st, index) == Constants_get_constant(st.constantsList, index).val

\* one call on the transport library
Ev(kind, arg, data, t) == [kind |-> kind, arg |-> arg, data |-> data, t |-> t]

RetNone == [kind |-> "None", val |-> << >>]
RetStr(s) == [kind |-> "str", val |-> s]
RetRaised == [kind |-> "raised", val |-> << >>]

\* a routine under way: the fields as it has left them, the transport calls
\* it has made, the exception that ended it ("" while none has) and the
\* value it returns
Begin(st) == [st |-> st, events |-> << >>, err |-> "", ret |-> RetNone]

Raise(o, e) == IF o.err # "" THEN o ELSE [o EXCEPT !.err = e, !.ret = RetRaised]

\* the handle holds an open session
IsConnected(st) == st.client # 0 /\ st.clients[st.client].connected

\* evaluating self.client: AttributeError while connect has never assigned it
client_attr(o) ==
    IF o.err = "" /\ o.st.client = 0 THEN Raise(o, "AttributeError") ELSE o

\* await self.client.write_gatt_char(char, data). The library refuses a
\* write on a client that is not connected (BleakError).
write_gatt_char(o, char, data) ==
    IF o.err # "" THEN o
    ELSE IF o.st.client = 0 THEN Raise(o, "AttributeError")
    ELSE IF ~IsConnected(o.st) THEN Raise(o, "BleakError")
    ELSE [o EXCEPT !.events = Append(@, Ev("write", char, data, 0))]

\* await self.client.read_gatt_char(char); the bytes read are the peer's
read_gatt_char(o, char) ==
    IF o.err # "" THEN o
    ELSE IF o.st.client = 0 THEN Raise(o, "AttributeError")
    ELSE IF ~IsConnected(o.st) THEN Raise(o, "BleakError")
    ELSE [o EXCEPT !.events = Append(@, Ev("read", char, << >>, 0))]

\* await asyncio.sleep(time)
sleep(o, time) ==
    IF o.err # "" THEN o
    ELSE [o EXCEPT !.events = Append(@, Ev("sleep", "", << >>, time))]

\* write_gatt_char(TX, command.encode()) for a command motor_command built:
\* its exception, if it raised one, ends the routine before the write
write_command(o, TX, cmd) ==
    IF o.err # "" THEN o
    ELSE IF cmd.err # "" THEN Raise(o, cmd.err)
    ELSE write_gatt_char(o, TX, encode(cmd.str))

---------------------------------------------------------------------------
(* The asynchronous routines *)

\* BleakClient(address); self.address = address; set_address(self.address);
\* await self.client.connect(). set_address assigns the attribute
\* bluetooth_address only: constantsList is not touched. reachable tells
\* whether the peer accepts the connection.
open_session(o, addr, reachable) ==
    LET made == Append(o.st.clients, [address |-> addr, connected |-> FALSE])
        st1 == [o.st EXCEPT !.clients = made, !.client = Len(made),
                            !.address = addr, !.bluetooth_address = addr]
        o1 == [o EXCEPT !.st = st1, !.events = Append(@, Ev("connect", addr, << >>, 0))]
    IN  IF reachable
        THEN [o1 EXCEPT !.st.clients[Len(made)].connected = TRUE]
        ELSE Raise(o1, "BleakError")

\* Cube.async_connect. found is what find_device_by_name('Tenka') returns:
\* the address of the device, or "" for None. With None the routine prints
\* its message and goes on to read device.address, which raises
\* AttributeError before any client is created.
async_connect(st, addr, found, reachable) ==
    IF addr # ""
    THEN open_session(Begin(st), addr, reachable)
    ELSE LET scanned == [Begin(st) EXCEPT !.events = << Ev("scan", "Tenka", << >>, 0) >>]
         IN  IF found = ""
             THEN Raise(scanned, "AttributeError")
             ELSE open_session(scanned, found, reachable)

\* Cube.async_information: six attribute reads, then the battery query. What
\* is read is printed, not kept.
async_information(st) ==
    LET r1 == read_gatt_char(Begin(st), constants(st, 6))
        r2 == read_gatt_char(r1, constants(st, 7))
        r3 == read_gatt_char(r2, constants(st, 15))
        r4 == read_gatt_char(r3, constants(st, 16))
        r5 == read_gatt_char(r4, constants(st, 17))
        r6 == read_gatt_char(r5, constants(st, 18))
        w == write_gatt_char(r6, constants(st, 2), encode(<< "b" >>))
    IN  read_gatt_char(w, constants(st, 3))

\* Cube.async_run_motor. self.client is evaluated before the argument of the
\* write, so a handle without a client fails before motor_command runs.
async_run_motor(st, letter, velocity, time, smooth) ==
    LET TX == constants(st, 2)
        started == write_command(client_attr(Begin(st)), TX, motor_command(letter, velocity))
        waited == sleep(started, time)
    IN  IF smooth
        THEN waited
        ELSE write_command(client_attr(waited), TX, motor_command(letter, 0))

Min(a, b) == IF a <= b THEN a ELSE b

\* for letter, velocity in zip(letters, velocities): zip stops at the end of
\* the shorter list
RECURSIVE start_loop(_, _, _, _, _)
start_loop(o, TX, letters, velocities, i) ==
    IF i > Min(Len(letters), Len(velocities)) \/ o.err # ""
    THEN o
    ELSE start_loop(write_command(o, TX, motor_command(letters[i], velocities[i])),
                    TX, letters, velocities, i + 1)

\* for letter in letters: the zero-velocity command of each
RECURSIVE stop_loop(_, _, _, _)
stop_loop(o, TX, letters, i) ==
    IF i > Len(letters) \/ o.err # ""
    THEN o
    ELSE stop_loop(write_command(o, TX, motor_command(letters[i], 0)), TX, letters, i + 1)

\* Cube.async_run_motors
async_run_motors(st, letters, velocities, time, smooth) ==
    LET TX == constants(st, 2)
        started == start_loop(Begin(st), TX, letters, velocities, 1)
        waited == sleep(started, time)
    IN  IF smooth THEN waited ELSE stop_loop(waited, TX, letters, 1)

\* Cube.async_halt
async_halt(st) == stop_loop(Begin(st), constants(st, 2), << "A", "B", "C" >>, 1)

\* Cube.async_battery. payload is the bytes the peer answers with.
async_battery(st, payload) ==
    LET w == write_gatt_char(Begin(st), constants(st, 2), encode(<< "b" >>))
        r == read_gatt_char(w, constants(st, 3))
        text == decode(payload)
    IN  IF r.err # "" THEN r
        ELSE IF text.err # "" THEN Raise(r, text.err)
        ELSE [r EXCEPT !.st.voltage = rstrip_nul(text.str),
                       !.ret = RetStr(rstrip_nul(text.str))]

\* self.client.disconnect(), the coroutine Cube.disconnect schedules; the
\* library closes the session and returns True, also on a closed client
client_disconnect(st) ==
    LET o == client_attr(Begin(st))
    IN  IF o.err # "" THEN o
        ELSE [o EXCEPT !.st.clients[st.client].connected = FALSE,
                       !.events = << Ev("disconnect", st.clients[st.client].address, << >>, 0) >>,
                       !.ret = RetStr(<< "True" >>)]

---------------------------------------------------------------------------
(* The synchronous wrappers *)

\* what a wrapper hands back for a routine that returned r:
\* loop.run_until_complete(asyncio.gather(task)) is the list of the one result
RetList(r) == [kind |-> "list", val |-> << r.kind >> \o r.val]

\* The body every public wrapper shares. In an interactive shell with the
\* loop running the routine runs as a task and its gathered result is
\* returned; in an interactive shell whose loop is not running neither branch
\* runs anything and the wrapper returns None; outside an interactive shell
\* asyncio.run runs the routine and its result is dropped. An exception of
\* the routine is printed and raised again.
dispatch(interactive, loop, st, o) ==
    IF interactive /\ ~loop
    THEN [ran |-> FALSE, st |-> st, events |-> << >>, err |-> "", ret |-> RetNone]
    ELSE [ran |-> TRUE, st |-> o.st, events |-> o.events, err |-> o.err,
          ret |-> IF o.err # "" THEN RetRaised
                  ELSE IF interactive THEN RetList(o.ret) ELSE RetNone]

\* Cube.disconnect: only the interactive branch with a running loop closes
\* the session; the other branch prints its message and returns
disconnect_dispatch(interactive, loop, st) ==
    IF interactive /\ loop
    THEN dispatch(interactive, loop, st, client_disconnect(st))
    ELSE [ran |-> FALSE, st |-> st, events |-> << >>, err |-> "", ret |-> RetNone]

---------------------------------------------------------------------------
(* Inputs *)

Addresses == {"C4:64:E3:00:00:01", "C4:64:E3:00:00:02"}
Letters == {"A", "B", "C", "D", "a"}
Velocities == (-MaxVel)..MaxVel
\* the letters, velocities and durations handed to run_motor
RunLetters == {"A", "B", "D"}
RunVelocities == {-100, 40, 101}
Durations == {1, 2}
\* the letters and velocities of the lists handed to run_motors
ListLetters == {"A", "B"}
ListVelocities == {40, 101}
\* what the peer answers to the battery query: "3.7", "3.7" padded with a
\* null byte, and a byte that is no UTF-8 text
Payloads == {<< 51, 46, 55 >>, << 51, 46, 55, 0 >>, << 255 >>}

Max(S) == CHOOSE x \in S : \A y \in S : y <= x

SeqsUpTo(S, n) == UNION {[1..k -> S] : k \in 0..n}

\* whether the event loop is running when a wrapper is entered: only an
\* interactive shell may have one running
LoopStates == IF jupyter THEN BOOLEAN ELSE {FALSE}

NoArgs ==
    [letters |-> << >>, velocities |-> << >>, time |-> 0, smooth |-> FALSE,
     address |-> "", found |-> "", index |-> 0, payload |-> << >>]

\* the arguments of a connect call; what the scan finds is an input only
\* when the address is empty and a scan is made
ConnectArgs(addr, found) ==
    [NoArgs EXCEPT !.address = addr, !.found = IF addr = "" THEN found ELSE ""]

---------------------------------------------------------------------------
(* State machine *)

\* the fields as a public call leaves them, and the record of the call
Finish(op, args, loop, d) ==
    /\ client' = d.st.client
    /\ clients' = d.st.clients
    /\ address' = d.st.address
    /\ bluetooth_address' = d.st.bluetooth_address
    /\ constantsList' = d.st.constantsList
    /\ voltage' = d.st.voltage
    /\ last' = [op |-> op, args |-> args, loop |-> loop,
                wasConnected |-> IsConnected(Fields), wasClient |-> client,
                ran |-> d.ran, events |-> d.events, err |-> d.err, ret |-> d.ret]
    /\ UNCHANGED jupyter

\* Cube.__init__ up to the call of connect: the fields of a new handle
\* built with the keyword address = addr
NewFields(addr) ==
    [client |-> 0, clients |-> << >>, address |-> addr, bluetooth_address |-> "",
     constantsList |-> Constants_init_list(""), voltage |-> << "unset" >>]

\* The state after construction: Cube(address = addr) has run
\* connect(self.address) and it has not raised (a constructor that raises
\* leaves no handle behind).
Init ==
    \E jup \in BOOLEAN, addr \in Addresses \cup {""}, found \in Addresses \cup {""},
       reachable \in BOOLEAN :
      \E loop \in (IF jup THEN BOOLEAN ELSE {FALSE}) :
        LET st == NewFields(addr)
            d == dispatch(jup, loop, st, async_connect(st, addr, found, reachable))
        IN  /\ d.err = ""
            /\ jupyter = jup
            /\ client = d.st.client
            /\ clients = d.st.clients
            /\ address = d.st.address
            /\ bluetooth_address = d.st.bluetooth_address
            /\ constantsList = d.st.constantsList
            /\ voltage = d.st.voltage
            /\ last = [op |-> "connect",
                       args |-> ConnectArgs(addr, found),
                       loop |-> loop, wasConnected |-> FALSE, wasClient |-> 0,
                       ran |-> d.ran, events |-> d.events, err |-> d.err, ret |-> d.ret]

\* Cube.connect(address)
connect ==
    \E addr \in Addresses \cup {""}, found \in Addresses \cup {""}, reachable \in BOOLEAN,
       loop \in LoopStates :
      /\ Len(clients) < MaxClients
      /\ Finish("connect", ConnectArgs(addr, found), loop,
                dispatch(jupyter, loop, Fields, async_connect(Fields, addr, found, reachable)))

\* Cube.information()
information ==
    \E loop \in LoopStates :
      Finish("information", NoArgs, loop,
             dispatch(jupyter, loop, Fields, async_information(Fields)))

\* Cube.battery()
battery ==
    \E payload \in Payloads, loop \in LoopStates :
      Finish("battery", [NoArgs EXCEPT !.payload = payload], loop,
             dispatch(jupyter, loop, Fields, async_battery(Fields, payload)))

\* Cube.run_motor(letter, velocity, time, smooth=...)
run_motor ==
    \E letter \in RunLetters, velocity \in RunVelocities, time \in Durations,
       smooth \in BOOLEAN, loop \in LoopStates :
      Finish("run_motor",
             [NoArgs EXCEPT !.letters = << letter >>, !.velocities = << velocity >>,
                            !.time = time, !.smooth = smooth],
             loop,
             dispatch(jupyter, loop, Fields,
                      async_run_motor(Fields, letter, velocity, time, smooth)))

\* Cube.run_motors(letters, velocities, time, smooth=...)
run_motors ==
    \E letters \in SeqsUpTo(ListLetters, MaxLen), velocities \in SeqsUpTo(ListVelocities, MaxLen),
       time \in {Max(Durations)}, smooth \in BOOLEAN, loop \in LoopStates :
      Finish("run_motors",
             [NoArgs EXCEPT !.letters = letters, !.velocities = velocities,
                            !.time = time, !.smooth = smooth],
             loop,
             dispatch(jupyter, loop, Fields,
                      async_run_motors(Fields, letters, velocities, time, smooth)))

\* Cube.halt()
halt ==
    \E loop \in LoopStates :
      Finish("halt", NoArgs, loop, dispatch(jupyter, loop, Fields, async_halt(Fields)))

\* Cube.disconnect()
disconnect ==
    \E loop \in LoopStates :
      Finish("disconnect", NoArgs, loop, disconnect_dispatch(jupyter, loop, Fields))

\* Cube.get_constant(index): no routine, the table is read directly
get_constant ==
    \E index \in (-(Len(constantsList) + 1))..Len(constantsList) :
      LET got == Constants_get_constant(constantsList, index)
      IN  Finish("get_constant", [NoArgs EXCEPT !.index = index], FALSE,
                 [ran |-> TRUE, st |-> Fields, events |-> << >>, err |-> got.err,
                  ret |-> IF got.err # "" THEN RetRaised ELSE RetStr(<< got.val >>)])

\* Cube.motor_command(letter, velocity), called directly
call_motor_command ==
    \E letter \in Letters, velocity \in Velocities :
      LET cmd == motor_command(letter, velocity)
      IN  Finish("motor_command",
                 [NoArgs EXCEPT !.letters = << letter >>, !.velocities = << velocity >>],
                 FALSE,
                 [ran |-> TRUE, st |-> Fields, events |-> << >>, err |-> cmd.err,
                  ret |-> IF cmd.err # "" THEN RetRaised ELSE RetStr(cmd.str)])

Next ==
    \/ connect
    \/ information
    \/ battery
    \/ run_motor
    \/ run_motors
    \/ halt
    \/ disconnect

Spec == Init /\ [][Next]_vars

\* the constant table on its own: a handle that is connected, disconnected
\* and asked for constants
NextConst ==
    \/ connect
    \/ disconnect
    \/ get_constant

SpecConst == Init /\ [][NextConst]_vars

\* the encoder on its own: a handle on which only motor_command is called
NextEnc == call_motor_command

\* a handle built outside an interactive shell with an explicit address
InitEnc == Init /\ ~jupyter /\ last.args.address = "C4:64:E3:00:00:01"

SpecEnc == InitEnc /\ [][NextEnc]_vars

---------------------------------------------------------------------------
(* What the claims read of the latest call *)

Channels == {"A", "B", "C"}
DigitChars == {"0", "1", "2", "3", "4", "5", "6", "7", "8", "9"}

Lowercase(letter) == CASE letter = "A" -> "a" [] letter = "B" -> "b" [] letter = "C" -> "c"

DigitValue(c) == CHOOSE d \in 0..9 : DigitChar(d) = c

\* the number that characters 1-3 of a command string spell
MagnitudeField(str) == 100 * DigitValue(str[2]) + 10 * DigitValue(str[3]) + DigitValue(str[4])

CalledEncoder == last.op = "motor_command"
ArgLetter == last.args.letters[1]
ArgVelocity == last.args.velocities[1]
Returned == last.err = "" /\ last.ret.kind # "raised"
Failed == last.err # "" /\ last.ret.kind = "raised"

---------------------------------------------------------------------------
(* Claims on the command encoder, under SpecEnc *)

\* C1: for a channel A, B or C and an integer velocity in -100..100,
\* motor_command returns a string of exactly 5 characters: '+' for v >= 0 and
\* '-' otherwise, then three decimal digits, then the channel's lowercase
\* letter.
C1_CommandFormat ==
    (CalledEncoder /\ ArgLetter \in Channels /\ abs(ArgVelocity) <= 100) =>
        /\ Returned
        /\ last.ret.kind = "str"
        /\ Len(last.ret.val) = 5
        /\ last.ret.val[1] = (IF ArgVelocity >= 0 THEN "+" ELSE "-")
        /\ \A i \in 2..4 : last.ret.val[i] \in DigitChars
        /\ last.ret.val[5] = Lowercase(ArgLetter)

\* a two-digit magnitude on a negative velocity: motor_command('B', -40) = '-095b'
C1_Witness ==
    /\ CalledEncoder /\ ArgLetter = "B" /\ ArgVelocity = -40
    /\ last.ret.val = << "-", "0", "9", "5", "b" >>

\* C2: the magnitude written in characters 1-3 is 0 for velocity 0 and
\* 55 + |v| for every other velocity in -100..100: always 0 or within
\* 56..155, never within 1..55.
C2_Magnitude ==
    (CalledEncoder /\ ArgLetter \in Channels /\ abs(ArgVelocity) <= 100 /\ Returned) =>
        /\ ArgVelocity = 0 => MagnitudeField(last.ret.val) = 0
        /\ ArgVelocity # 0 => MagnitudeField(last.ret.val) = 55 + abs(ArgVelocity)
        /\ MagnitudeField(last.ret.val) \in {0} \cup 56..155

\* the zero velocity, sent as magnitude 000 with the positive sign
C2_Witness ==
    /\ CalledEncoder /\ ArgLetter = "C" /\ ArgVelocity = 0
    /\ last.ret.val = << "+", "0", "0", "0", "c" >>

\* C3: for a channel A, B or C, motor_command raises the velocity-range
\* error and returns nothing when |v| > 100, and raises nothing when |v| <= 100.
C3_VelocityRange ==
    (CalledEncoder /\ ArgLetter \in Channels) =>
        /\ abs(ArgVelocity) > 100 => (Failed /\ last.err = "ValueError")
        /\ abs(ArgVelocity) <= 100 => Returned

\* the first velocity past the range, and the last one within it
C3_Witness ==
    /\ CalledEncoder /\ ArgLetter = "A"
    /\ \/ ArgVelocity = 101 /\ last.err = "ValueError"
       \/ ArgVelocity = -101 /\ last.err = "ValueError"

\* C4: for a motor identifier other than 'A', 'B' or 'C' and a velocity in
\* -100..100, motor_command raises and returns no command string.
C4_UnknownChannel ==
    (CalledEncoder /\ ArgLetter \notin Channels /\ abs(ArgVelocity) <= 100) => Failed

\* motor_command('D', 10)
C4_Witness ==
    /\ CalledEncoder /\ ArgLetter = "D" /\ ArgVelocity = 10
    /\ last.err = "UnboundLocalError"

---------------------------------------------------------------------------
(* Claims on the device operations, under Spec *)

TX == TX_CHAR

WriteEv(str) == Ev("write", TX, encode(str), 0)
SleepEv(t) == Ev("sleep", "", << >>, t)

\* the zero-velocity command of a channel, spelled out
StopString(letter) == << "+", "0", "0", "0", Lowercase(letter) >>

\* the events of the latest call that are reads or writes of an attribute
Transfers == {i \in 1..Len(last.events) : last.events[i].kind \in {"read", "write"}}

ValidPair(letter, velocity) == letter \in Channels /\ abs(velocity) <= 100

\* C5: run_motor(letter, v, t) on a connected handle, for a channel and a
\* velocity the encoder accepts, writes the start command, waits t and then
\* writes the stop command, two writes in all; with smooth it writes the
\* start command only.
C5_RunMotorWrites ==
    (/\ last.op = "run_motor" /\ last.wasConnected
     /\ ValidPair(ArgLetter, ArgVelocity)) =>
        last.events =
            << WriteEv(motor_command(ArgLetter, ArgVelocity).str), SleepEv(last.args.time) >>
            \o (IF last.args.smooth THEN << >> ELSE << WriteEv(StopString(ArgLetter)) >>)

\* C6: run_motors(letters, velocities, t) without smooth on a connected
\* handle, for channels and velocities the encoder accepts, makes one start
\* write per motor of letters in the order of letters, then waits t, then
\* makes one stop write per motor in the same order, whether or not the two
\* lists have the same length. Stated for the calls whose routine runs.
C6_RunMotorsWrites ==
    (/\ last.op = "run_motors" /\ last.wasConnected /\ last.ran /\ ~last.args.smooth
     /\ \A i \in 1..Len(last.args.letters) : last.args.letters[i] \in Channels
     /\ \A i \in 1..Len(last.args.velocities) : abs(last.args.velocities[i]) <= 100) =>
        LET n == Len(last.args.letters)
        IN  /\ Len(last.events) = 2 * n + 1
            /\ last.events[n + 1] = SleepEv(last.args.time)
            /\ \A i \in 1..n :
                 /\ last.events[i].kind = "write"
                 /\ last.events[i].arg = TX
                 /\ Len(last.events[i].data) = 5
                 /\ last.events[i].data[5] = ord(Lowercase(last.args.letters[i]))
                 /\ i <= Len(last.args.velocities) =>
                      last.events[i] =
                        WriteEv(motor_command(last.args.letters[i], last.args.velocities[i]).str)
                 /\ last.events[n + 1 + i] = WriteEv(StopString(last.args.letters[i]))

\* C7: halt() on a connected handle makes exactly three writes on the TX
\* characteristic, '+000a', '+000b' and '+000c' in this order, whatever was
\* sent before.
C7_HaltWrites ==
    (last.op = "halt" /\ last.wasConnected) =>
        last.events =
            << Ev("write", TX, << 43, 48, 48, 48, 97 >>, 0),
               Ev("write", TX, << 43, 48, 48, 48, 98 >>, 0),
               Ev("write", TX, << 43, 48, 48, 48, 99 >>, 0) >>

\* the address a connect call resolves: the one it was given, or the one
\* the scan found
ResolvedAddress == IF last.args.address # "" THEN last.args.address ELSE last.args.found

\* a connect call whose routine ran and raised nothing
ConnectSucceeded == last.op = "connect" /\ last.ran /\ last.err = ""

\* C8: after a successful connect get_constant(0) is the resolved address:
\* the explicit address, with no scan made, when one was given, and the
\* discovered address when the address was empty.
C8_AddressSlot ==
    ConnectSucceeded =>
        /\ Constants_get_constant(constantsList, 0).val = ResolvedAddress
        /\ last.args.address # "" => \A i \in 1..Len(last.events) : last.events[i].kind # "scan"

\* the error of the earlier module version for a scan that finds no cube
\* (src/CircuitCubes.py raises ConnectionError); version 1.1.3 has none
NoDeviceErrors == {"ConnectionError"}

\* C9: connect with an empty address on a disconnected handle, when the scan
\* finds no device, raises a no-device error to the caller, creates no
\* client and leaves the handle disconnected. Stated for the calls whose
\* routine runs.
C9_NoDevice ==
    (/\ last.op = "connect" /\ last.ran /\ ~last.wasConnected
     /\ last.args.address = "" /\ last.args.found = "") =>
        /\ Failed
        /\ last.err \in NoDeviceErrors
        /\ client = last.wasClient
        /\ ~IsConnected(Fields)

\* the error the transport library raises on a client that is not connected
NotConnectedErrors == {"BleakError"}

DeviceOps == {"information", "battery", "run_motor", "run_motors", "halt", "disconnect"}

\* C10: information, battery, run_motor, run_motors, halt and disconnect,
\* called on a handle that is not connected, raise a not-connected error
\* and make no read or write on the transport.
C10_NotConnected ==
    (last.op \in DeviceOps /\ ~last.wasConnected) =>
        /\ Failed
        /\ last.err \in NotConnectedErrors
        /\ Transfers = {}

---------------------------------------------------------------------------
(* What the routines do whenever a wrapper runs them *)

\* async_run_motor, once it runs on a connected handle with a pair the
\* encoder accepts, makes the writes of a timed run: start, wait, stop
\* (start and wait only with smooth)
RoutineRunMotorWrites ==
    (last.op = "run_motor" /\ last.ran) =>
        ((last.wasConnected /\ ValidPair(ArgLetter, ArgVelocity)) =>
            last.events =
                << WriteEv(motor_command(ArgLetter, ArgVelocity).str), SleepEv(last.args.time) >>
                \o (IF last.args.smooth THEN << >> ELSE << WriteEv(StopString(ArgLetter)) >>))

\* async_halt, once it runs on a connected handle, makes the three stop writes
RoutineHaltWrites ==
    (last.op = "halt" /\ last.ran /\ last.wasConnected) =>
        last.events =
            << WriteEv(StopString("A")), WriteEv(StopString("B")), WriteEv(StopString("C")) >>

---------------------------------------------------------------------------
(* Claims on the session and on the dispatch of the routines *)

\* C11: disconnect() on a connected handle closes the session: when it
\* returns the handle is disconnected, whether the caller is inside a
\* running event loop or has no running loop.
C11_DisconnectCloses ==
    (last.op = "disconnect" /\ last.wasConnected) => ~IsConnected(Fields)

\* the client objects whose session is open
OpenSessions == {i \in 1..Len(clients) : clients[i].connected}

\* the peers that have an open session with this handle's clients
ConnectedPeers == {clients[i].address : i \in OpenSessions}

\* C12: after any sequence of connect and disconnect calls at most one
\* session is open: a connect made while a session is open does not leave
\* that session open beside the new one. Stated on the peers, so that two
\* client objects on one peer do not count as two sessions.
C12_OneSession == Cardinality(ConnectedPeers) <= 1


PublicOps == {"connect", "information", "battery", "run_motor", "run_motors", "halt"}

\* C13: connect, information, battery, run_motor, run_motors and halt return
\* only after their routine has run to its end (or raised), in an
\* interactive shell with the loop running, in one without a running loop
\* and outside an interactive shell.
C13_RunsToCompletion == last.op \in PublicOps => last.ran

---------------------------------------------------------------------------
(* Claim on the constant table, under SpecConst *)

\* C14: get_constant(index) returns the entry at position index for every
\* index in 0..28 and raises the out-of-range error for every other
\* integer, the negative ones included.
C14_IndexRange ==
    last.op = "get_constant" =>
        IF last.args.index \in 0..28
        THEN Returned /\ last.ret = RetStr(<< constantsList[last.args.index + 1] >>)
        ELSE Failed /\ last.err = "IndexError"

---------------------------------------------------------------------------
(* Claims on the battery query and on a run that fails part-way, under Spec *)

\* C15: battery() on a connected handle writes the single byte 'b' on the TX
\* characteristic, then reads the RX characteristic, and returns the voltage
\* string decoded from what was read ("3.7" for both decodable answers of
\* the model). Stated for the calls whose routine runs, with or without a
\* running event loop.
C15_BatteryReturnsVoltage ==
    (/\ last.op = "battery" /\ last.ran /\ last.wasConnected
     /\ last.args.payload \in {<< 51, 46, 55 >>, << 51, 46, 55, 0 >>}) =>
        /\ last.events = << Ev("write", TX, << 98 >>, 0), Ev("read", RX_CHAR, << >>, 0) >>
        /\ last.ret = RetStr(<< "3", ".", "7" >>)

\* a write of a command with a magnitude other than 000: a motor set running
IsStartWrite(e) ==
    /\ e.kind = "write" /\ e.arg = TX /\ Len(e.data) = 5
    /\ << e.data[2], e.data[3], e.data[4] >> # << 48, 48, 48 >>

\* the write of the zero-velocity command of the channel that e addresses
IsStopWriteFor(e, f) ==
    f.kind = "write" /\ f.arg = TX /\ f.data = << 43, 48, 48, 48, e.data[5] >>

\* C16: in a run_motors call without smooth every motor that was sent a
\* start command is sent the zero-velocity command later in the same call,
\* also when the call raises part-way on an unknown channel or on a
\* velocity out of range.
C16_StartedMotorsStopped ==
    (last.op = "run_motors" /\ ~last.args.smooth) =>
        \A i \in 1..Len(last.events) :
            IsStartWrite(last.events[i]) =>
                \E j \in (i + 1)..Len(last.events) :
                    IsStopWriteFor(last.events[i], last.events[j])

\* a run_motors call without smooth that raises nothing stops every motor
\* it started
CompletedRunStopsMotors ==
    (last.op = "run_motors" /\ ~last.args.smooth /\ last.err = "") =>
        \A i \in 1..Len(last.events) :
            IsStartWrite(last.events[i]) =>
                \E j \in (i + 1)..Len(last.events) :
                    IsStopWriteFor(last.events[i], last.events[j])

===========================================================================
